---- MODULE Spec2Model ----
(***************************************************************************)
(* Model of the real-time core of the azure-chat frontend:                 *)
(*   ChatService  (services/chatService.ts, global-presence revision)      *)
(*   ChatProvider (contexts/ChatContext.tsx, global-presence revision)     *)
(* One action is one browser task: an event handler together with the      *)
(* promise continuations (microtasks) it triggers.                         *)
(***************************************************************************)
EXTENDS Integers, Sequences, FiniteSets, TLC

\* ------------------------------------------------------------------ bounds
MaxSockets == 2        \* WebSocket objects tracked at the same time
MaxWaits == 1          \* 100 ms teardown waits in flight at the same time
MaxCallbacks == 2      \* registrations per callback list
MaxTimers == 3         \* timer ids handed out by window.setTimeout
MaxUnread == 1         \* largest unread count followed
MaxRequests == 4       \* subscribe calls whose outcome is followed
MaxFrames == 2         \* subscribe frames of one room the backend has not answered
MaxPosts == 1          \* attachment posts in flight at the same time
MaxStale == 1          \* torn-down transports whose promise is still pending

\* ------------------------------------------------------- program constants
maxReconnectAttempts == 5
reconnectDelay == 3000
DEFAULT_ROOM_ID == "general"

NULL == "null"      \* null for rooms and errors
NoSocket == 0       \* this.connection = null
NoTimer == 0        \* this.reconnectTimeoutId = null
Users == {"alice"}
Rooms == {"general", "random"}
TimerIds == 1..MaxTimers
NormalClosure == 1000
GoingAway == 1001
AbnormalClosure == 1006
AuthFailure == 4001
\* the close codes a server or the network produces here; 1011 is "internal error"
CloseCodes == {NormalClosure, GoingAway, AbnormalClosure, 1011, AuthFailure}
MsgIds == {"m1", "m2"}
\* timestamps, as the instants new Date(timestamp).getTime() gives for them
Timestamps == {1, 2}
NoRoom == ""        \* a frame that carries neither chatId nor roomId
\* the users whose presence the server announces
PresenceIds == Users \cup {"bob"}

\* The data of an inbound message frame.
Frames == [room : Rooms \cup {NoRoom}, id : MsgIds, ts : Timestamps]

\* What GET /api/rooms/{id}/history can answer: messages with distinct ids, in
\* any order.
Histories ==
  {h \in UNION {[1..n -> [id : MsgIds, ts : Timestamps]] :
                 n \in 0..Cardinality(MsgIds)} :
     \A i, j \in DOMAIN h : i # j => h[i].id # h[j].id}

\* Delays are kept as (milliseconds * DelayScale) so that 1.5^k stays integral.
DelayScale == 2 ^ maxReconnectAttempts

VARIABLES
  \* ChatService
  sock,                 \* the WebSocket objects that can still act, oldest first
  connection,           \* this.connection: NoSocket or an index of sock
  reconnectAttempts,    \* this.reconnectAttempts
  reconnectTimeoutId,   \* this.reconnectTimeoutId: NoTimer or a timer id
  timers,               \* pending reconnect timers of window.setTimeout: id, delay,
                        \* and after, the 100 ms waits pending since before it was set
  currentUserId,        \* this.currentUserId ("" until the first startConnection)
  nCallbacks,           \* length of each callback list (connect pushes to all four)
  waits,                \* async calls suspended in the 100 ms wait, oldest first
  \* ChatProvider
  isConnected,          \* isConnected / isConnectedRef
  isConnecting,         \* isConnectingRef
  currentRoomId,        \* currentRoomId (React state)
  currentRoomIdRef,     \* currentRoomIdRef (synchronised by the render effect)
  effectDeps,           \* [currentRoomId, isConnected] seen by the last effect run
  messagesByRoom,       \* messagesByRoom / messagesByRoomRef
  unreadMessages,       \* unreadMessages / unreadMessagesRef
  loadingHistory,       \* loadingHistoryRef
  fetching,             \* history fetches in flight, per room
  activeUsers,          \* activeUsers / activeUsersRef
  error,                \* error
  posting,              \* POSTs of messages with an attachment in flight
  \* environment
  hasFocus,             \* document.hasFocus()
  storedIdentity,       \* localStorage chatUsername / chatUserId present
  \* history of the run
  failedRun,            \* consecutive failed reconnect attempts so far
  returned,             \* disconnect() has returned and connect() was not called since
  reloaded,             \* a 4001 close reloaded the page and connect() was not called since
  \* Subscription Manager (a revision of the service that is not among the sources)
  sm,                   \* its state, and the outcome of every subscribe call
  restoring,            \* since the last abnormal disconnect the caller has not acted
                        \* and no room subscribed before it was refused
  activated,            \* the room that became the active room, by a switch or by a
                        \* connection that was established, nothing but renders
                        \* having happened since (NULL: none)
  fetched,              \* the rooms for which a history fetch has been answered,
                        \* with a history or with a failure
  \* the revision with one connection per room (services/chatService.ts,
  \* contexts/ChatContext.tsx)
  roomService,          \* the fields of its ChatService and the calls that await
  roomBefore,           \* currentRoomId of the service when updateCurrentRoom was
                        \* last called and went on to connect
  activeUsersByRoom     \* activeUsersByRoom / activeUsersByRoomRef of its provider

vars == <<sock, connection, reconnectAttempts, reconnectTimeoutId, timers,
          currentUserId, nCallbacks, waits, isConnected, isConnecting,
          currentRoomId, currentRoomIdRef, effectDeps, messagesByRoom,
          unreadMessages, loadingHistory, fetching, activeUsers, error,
          posting, hasFocus, storedIdentity, failedRun, returned, reloaded,
          sm, restoring, activated, fetched, roomService, roomBefore,
          activeUsersByRoom>>

\* ------------------------------------------------------------------ state
\* A WebSocket: rs its readyState, on whether onopen/onclose/onerror/onmessage
\* are set, prom the promise startConnection returned for it, lis whether the
\* promise's open/error listeners are attached, dl whether the promise's 10 s
\* timer is pending, by who awaits the promise.
NewSock(by) == [rs |-> "CONNECTING", on |-> TRUE, lis |-> TRUE, prom |-> "pending",
                dl |-> TRUE, by |-> by]

ClosedSock == [rs |-> "CLOSED", on |-> FALSE, lis |-> FALSE, prom |-> "settled",
               dl |-> FALSE, by |-> "none"]

InitState ==
  [sock |-> <<>>,
   connection |-> NoSocket,
   reconnectAttempts |-> 0,
   reconnectTimeoutId |-> NoTimer,
   timers |-> {},
   currentUserId |-> "",
   nCallbacks |-> 0,
   waits |-> <<>>,
   isConnected |-> FALSE,
   isConnecting |-> FALSE,
   currentRoomId |-> NULL,
   currentRoomIdRef |-> NULL,
   effectDeps |-> <<NULL, FALSE>>,
   messagesByRoom |-> << >>,
   unreadMessages |-> [r \in Rooms |-> 0],
   loadingHistory |-> [r \in Rooms |-> FALSE],
   fetching |-> [r \in Rooms |-> 0],
   activeUsers |-> <<>>,
   error |-> NULL,
   posting |-> 0,
   hasFocus |-> TRUE,
   storedIdentity |-> FALSE,
   ovf |-> FALSE]

\* The current state as one record, so that a handler is a function on states.
Cur ==
  [sock |-> sock, connection |-> connection,
   reconnectAttempts |-> reconnectAttempts,
   reconnectTimeoutId |-> reconnectTimeoutId, timers |-> timers,
   currentUserId |-> currentUserId, nCallbacks |-> nCallbacks, waits |-> waits,
   isConnected |-> isConnected, isConnecting |-> isConnecting,
   currentRoomId |-> currentRoomId, currentRoomIdRef |-> currentRoomIdRef,
   effectDeps |-> effectDeps, messagesByRoom |-> messagesByRoom,
   unreadMessages |-> unreadMessages, loadingHistory |-> loadingHistory,
   fetching |-> fetching, activeUsers |-> activeUsers, error |-> error,
   posting |-> posting, hasFocus |-> hasFocus, storedIdentity |-> storedIdentity,
   ovf |-> FALSE]

\* What no handler can observe any more is forgotten.  Once its promise is
\* settled, a socket's listeners and who awaited it have no effect, and its
\* 10 s timer has none unless the socket is open; a socket that is not
\* this.connection and whose events reach no handler (its handlers removed, or
\* closed) can do nothing at all.
Garbage(s, i) ==
  /\ s.sock[i].prom # "pending"
  /\ s.connection # i
  /\ ~s.sock[i].on \/ s.sock[i].rs = "CLOSED"

Settled(k) ==
  IF k.prom = "pending" THEN k
  ELSE IF k.rs = "CLOSED" THEN ClosedSock
  ELSE [k EXCEPT !.lis = FALSE, !.by = "none", !.prom = "settled",
                 !.dl = IF k.rs = "OPEN" THEN @ ELSE FALSE]

RECURSIVE KeepSocks(_, _)
KeepSocks(s, i) ==
  IF i > Len(s.sock) THEN <<>>
  ELSE (IF Garbage(s, i) THEN <<>> ELSE <<Settled(s.sock[i])>>) \o KeepSocks(s, i + 1)

Collect(s) ==
  [s EXCEPT !.sock = KeepSocks(s, 1),
            !.connection = Cardinality({i \in 1..s.connection : ~Garbage(s, i)})]

\* The handler's result becomes the next state; a handler that ran into a
\* bound of the model (s.ovf), or counted more unread messages than the model
\* follows, is not taken.
Commit(s0) ==
  \E s \in {Collect(s0)} :
  /\ ~s.ovf
  /\ \A r \in Rooms : s.unreadMessages[r] <= MaxUnread
  /\ sock' = s.sock
  /\ connection' = s.connection
  /\ reconnectAttempts' = s.reconnectAttempts
  /\ reconnectTimeoutId' = s.reconnectTimeoutId
  /\ timers' = s.timers
  /\ currentUserId' = s.currentUserId
  /\ nCallbacks' = s.nCallbacks
  /\ waits' = s.waits
  /\ isConnected' = s.isConnected
  /\ isConnecting' = s.isConnecting
  /\ currentRoomId' = s.currentRoomId
  /\ currentRoomIdRef' = s.currentRoomIdRef
  /\ effectDeps' = s.effectDeps
  /\ messagesByRoom' = s.messagesByRoom
  /\ unreadMessages' = s.unreadMessages
  /\ loadingHistory' = s.loadingHistory
  /\ fetching' = s.fetching
  /\ activeUsers' = s.activeUsers
  /\ error' = s.error
  /\ posting' = s.posting
  /\ hasFocus' = s.hasFocus
  /\ storedIdentity' = s.storedIdentity
  /\ UNCHANGED <<sm, restoring, roomService, roomBefore, activeUsersByRoom>>

Init ==
  /\ sock = InitState.sock
  /\ connection = InitState.connection
  /\ reconnectAttempts = InitState.reconnectAttempts
  /\ reconnectTimeoutId = InitState.reconnectTimeoutId
  /\ timers = InitState.timers
  /\ currentUserId = InitState.currentUserId
  /\ nCallbacks = InitState.nCallbacks
  /\ waits = InitState.waits
  /\ isConnected = InitState.isConnected
  /\ isConnecting = InitState.isConnecting
  /\ currentRoomId = InitState.currentRoomId
  /\ currentRoomIdRef = InitState.currentRoomIdRef
  /\ effectDeps = InitState.effectDeps
  /\ messagesByRoom = InitState.messagesByRoom
  /\ unreadMessages = InitState.unreadMessages
  /\ loadingHistory = InitState.loadingHistory
  /\ fetching = InitState.fetching
  /\ activeUsers = InitState.activeUsers
  /\ error = InitState.error
  /\ posting = InitState.posting
  /\ hasFocus = InitState.hasFocus
  /\ storedIdentity = InitState.storedIdentity
  /\ failedRun = 0
  /\ returned = FALSE
  /\ reloaded = FALSE
  /\ sm = [roomState |-> [r \in Rooms |-> "Unsubscribed"],
           tracked |-> [r \in Rooms |-> 0],
           inflight |-> [r \in Rooms |-> 0],
           requests |-> <<>>,
           up |-> FALSE,
           prior |-> {},
           activeRoom |-> NULL,
           ovf |-> FALSE]
  /\ restoring = FALSE
  /\ activated = NULL
  /\ fetched = {}
  /\ roomService = [currentRoomId |-> DEFAULT_ROOM_ID,
                    roomChangeInProgress |-> FALSE,
                    conn |-> "none",
                    pending |-> "none",
                    target |-> NULL,
                    reconnectAttempts |-> 0,
                    timer |-> FALSE,
                    stale |-> <<>>,
                    ovf |-> FALSE]
  /\ roomBefore = DEFAULT_ROOM_ID
  /\ activeUsersByRoom = << >>

\* ------------------------------------------------------------ Message Store
\* Array.prototype.sort with the comparator a.timestamp - b.timestamp: stable.
RECURSIVE InsertByTs(_, _)
InsertByTs(m, sorted) ==
  IF sorted = <<>> THEN <<m>>
  ELSE IF Head(sorted).ts <= m.ts
       THEN <<Head(sorted)>> \o InsertByTs(m, Tail(sorted))
       ELSE <<m>> \o sorted

RECURSIVE SortByTs(_)
SortByTs(msgs) ==
  IF msgs = <<>> THEN <<>>
  ELSE InsertByTs(msgs[Len(msgs)], SortByTs(SubSeq(msgs, 1, Len(msgs) - 1)))

HasId(msgs, id) == \E i \in 1..Len(msgs) : msgs[i].id = id

\* prev[roomId] || []
\* messagesByRoom is a JavaScript object: a function on the keys it has
Loaded(s, r) == r \in DOMAIN s.messagesByRoom

RoomMessages(s, r) == IF Loaded(s, r) THEN s.messagesByRoom[r] ELSE <<>>

\* { ...prev, [roomId]: msgs }
SetRoom(prev, r, msgs) == [x \in DOMAIN prev \cup {r} |-> IF x = r THEN msgs ELSE prev[x]]

markRoomAsRead(s, r) == [s EXCEPT !.unreadMessages[r] = 0]

\* loadHistory up to its await: the guard, the flag, the request.
loadHistory(s, r) ==
  IF s.loadingHistory[r] THEN s
  ELSE [s EXCEPT !.loadingHistory[r] = TRUE, !.fetching[r] = @ + 1]

setCurrentRoomId(s, r) ==
  IF s.currentRoomIdRef = r THEN s
  ELSE LET s1 == [s EXCEPT !.currentRoomId = r] IN
       IF r = NULL THEN s1
       ELSE LET s2 == markRoomAsRead(s1, r) IN
            IF ~Loaded(s2, r) /\ ~s2.loadingHistory[r]
            THEN loadHistory(s2, r) ELSE s2

\* historyLoaded without the sort of the fetched history
historyLoadedUnsorted(s, r, history) ==
  [s EXCEPT !.messagesByRoom = SetRoom(@, r, history),
            !.loadingHistory[r] = FALSE]

\* loadHistory after its await: the fetched history replaces the room's entry
historyLoaded(s, r, history) ==
  [s EXCEPT !.messagesByRoom = SetRoom(@, r, SortByTs(history)),
            !.loadingHistory[r] = FALSE]

\* loadHistory whose catch empties the room's log
historyFailedEmptying(s, r) ==
  [s EXCEPT !.error = "history", !.loadingHistory[r] = FALSE,
            !.messagesByRoom = SetRoom(@, r, <<>>)]

\* the catch of loadHistory without its finally
historyFailedHolding(s, r) ==
  [s EXCEPT !.error = "history"]

historyFailed(s, r) ==
  [s EXCEPT !.error = "history", !.loadingHistory[r] = FALSE]

\* handleReceiveMessage without the lookup of the id in the room's log
handleReceiveMessageAppending(s, m) ==
  IF m.room = NoRoom THEN s
  ELSE LET r == m.room
           s1 == [s EXCEPT !.messagesByRoom =
                    SetRoom(@, r, SortByTs(Append(RoomMessages(s, r),
                              [id |-> m.id, ts |-> m.ts])))]
       IN IF r # s1.currentRoomIdRef \/ ~s1.hasFocus
          THEN [s1 EXCEPT !.unreadMessages[r] = @ + 1]
          ELSE s1

\* handleReceiveMessage without the test of the room identifier
handleReceiveMessageUnkeyed(s, m) ==
  LET r == m.room
      existing == RoomMessages(s, r)
      s1 == IF HasId(existing, m.id) THEN s
            ELSE [s EXCEPT !.messagesByRoom =
                    SetRoom(@, r, SortByTs(Append(existing,
                              [id |-> m.id, ts |-> m.ts])))]
  IN IF r \in Rooms /\ (r # s1.currentRoomIdRef \/ ~s1.hasFocus)
     THEN [s1 EXCEPT !.unreadMessages[r] = @ + 1]
     ELSE s1

handleReceiveMessage(s, m) ==
  IF m.room = NoRoom THEN s
  ELSE LET r == m.room
           existing == RoomMessages(s, r)
           s1 == IF HasId(existing, m.id) THEN s
                 ELSE [s EXCEPT !.messagesByRoom =
                         SetRoom(@, r, SortByTs(Append(existing,
                                   [id |-> m.id, ts |-> m.ts])))]
       IN IF r # s1.currentRoomIdRef \/ ~s1.hasFocus
          THEN [s1 EXCEPT !.unreadMessages[r] = @ + 1]
          ELSE s1

\* messageCallbacks.forEach(callback => callback(data.data))
RECURSIVE notifyMessage(_, _, _)
notifyMessage(s, m, n) ==
  IF n = 0 THEN s ELSE notifyMessage(handleReceiveMessage(s, m), m, n - 1)

\* ----------------------------------------------------------------- Presence
InSeq(x, seq) == \E i \in 1..Len(seq) : seq[i] = x

\* handleUserCameOnline without the lookup of the user in the list
handleUserCameOnlineAppending(s, uid) ==
  [s EXCEPT !.activeUsers = Append(@, uid)]

handleUserCameOnline(s, uid) ==
  IF InSeq(uid, s.activeUsers) THEN s
  ELSE [s EXCEPT !.activeUsers = Append(@, uid)]

handleUserWentOffline(s, uid) ==
  [s EXCEPT !.activeUsers = SelectSeq(@, LAMBDA x : x # uid)]

\* userJoinedRoomCallbacks.forEach(callback => callback(joinEvent))
RECURSIVE notifyOnline(_, _, _)
notifyOnline(s, uid, n) ==
  IF n = 0 THEN s ELSE notifyOnline(handleUserCameOnline(s, uid), uid, n - 1)

\* userWentOfflineCallbacks.forEach(callback => callback(leaveEvent))
RECURSIVE notifyOffline(_, _, _)
notifyOffline(s, uid, n) ==
  IF n = 0 THEN s ELSE notifyOffline(handleUserWentOffline(s, uid), uid, n - 1)

\* ------------------------------------------------------------ inbound frames
\* The text of an inbound frame: ok whether JSON.parse accepts it, and what
\* it parses to (the frame type, the message of a "message" frame, the user
\* of a presence frame). A text that does not parse is the damaged text of
\* some frame.
FrameTypes == {"message", "user_online", "user_offline", "user_joined_room",
               "user_left_room", "error"}

InboundFrames ==
  [ok : BOOLEAN, type : FrameTypes,
   data : {m \in Frames : m.id = "m1" /\ m.ts = 1}, userId : PresenceIds]

\* handleMessage that takes a text that does not parse for what it would
\* have been
handleMessageLenient(s, f) ==
  IF f.type = "message" THEN notifyMessage(s, f.data, s.nCallbacks)
  ELSE IF f.type \in {"user_online", "user_joined_room"}
  THEN notifyOnline(s, f.userId, s.nCallbacks)
  ELSE IF f.type \in {"user_offline", "user_left_room"}
  THEN notifyOffline(s, f.userId, s.nCallbacks)
  ELSE s

\* handleMessage: JSON.parse throws into the catch for a text that does not
\* parse; otherwise the callbacks of the frame's type run
handleMessage(s, f) ==
  IF ~f.ok THEN s
  ELSE IF f.type = "message" THEN notifyMessage(s, f.data, s.nCallbacks)
  ELSE IF f.type \in {"user_online", "user_joined_room"}
  THEN notifyOnline(s, f.userId, s.nCallbacks)
  ELSE IF f.type \in {"user_offline", "user_left_room"}
  THEN notifyOffline(s, f.userId, s.nCallbacks)
  ELSE s

\* -------------------------------------------------------------- ChatService
Min(S) == CHOOSE x \in S : \A y \in S : x <= y

\* isConnected()
IsOpen(s) == s.connection # NoSocket /\ s.sock[s.connection].rs = "OPEN"

FreshTimerIds(s) == {t \in TimerIds : \A x \in s.timers : x.id # t}

\* this.reconnectDelay * Math.pow(1.5, attempts), times DelayScale
Delay(attempts) ==
  reconnectDelay * (3 ^ attempts) * (2 ^ (maxReconnectAttempts - attempts))

\* window.clearTimeout(id): unknown and fired ids are ignored
clearTimeout(s, id) == [s EXCEPT !.timers = {t \in @ : t.id # id}]

\* scheduleReconnect without the clearTimeout of the timer it set before
scheduleReconnectStacking(s) ==
  IF s.reconnectAttempts >= maxReconnectAttempts THEN s
  ELSE IF FreshTimerIds(s) = {} THEN [s EXCEPT !.ovf = TRUE]
  ELSE LET id == Min(FreshTimerIds(s)) IN
       [s EXCEPT !.timers = @ \cup {[id |-> id,
                                     delay |-> Delay(s.reconnectAttempts),
                                     after |-> Len(s.waits)]},
                 !.reconnectTimeoutId = id]

scheduleReconnect(s) ==
  LET s1 == IF s.reconnectTimeoutId # NoTimer
            THEN clearTimeout(s, s.reconnectTimeoutId) ELSE s
  IN IF s1.reconnectAttempts >= maxReconnectAttempts THEN s1
     ELSE IF FreshTimerIds(s1) = {} THEN [s1 EXCEPT !.ovf = TRUE]
     ELSE LET id == Min(FreshTimerIds(s1)) IN
          [s1 EXCEPT !.timers = @ \cup {[id |-> id,
                                         delay |-> Delay(s1.reconnectAttempts),
                                         after |-> Len(s1.waits)]},
                     !.reconnectTimeoutId = id]

\* cleanupExistingConnection up to its await; the caller waits 100 ms exactly
\* when there was a connection.
cleanupExistingConnection(s) ==
  IF s.connection = NoSocket THEN s
  ELSE LET c == s.connection IN
       [s EXCEPT !.sock[c].on = FALSE,
                 !.sock[c].rs = IF @ \in {"OPEN", "CONNECTING"} THEN "CLOSING" ELSE @,
                 !.connection = NoSocket]

Enqueue(s, w) ==
  IF Len(s.waits) >= MaxWaits THEN [s EXCEPT !.ovf = TRUE]
  ELSE [s EXCEPT !.waits = Append(@, w)]

\* startConnection after the cleanup: new WebSocket, the four handlers, the
\* promise with its open/error listeners and its 10 s deadline.
newWebSocket(s, user, by) ==
  IF Len(s.sock) >= MaxSockets THEN [s EXCEPT !.ovf = TRUE]
  ELSE [s EXCEPT !.sock = Append(@, NewSock(by)),
                 !.connection = Len(s.sock) + 1,
                 !.currentUserId = user]

\* startConnection that leaves reconnectAttempts as it is
startConnectionCounting(s, user, by) ==
  LET s1 == [s EXCEPT !.currentUserId = user]
      s2 == cleanupExistingConnection(s1)
  IN IF s1.connection # NoSocket
     THEN Enqueue(s2, [kind |-> "start", by |-> by, user |-> user])
     ELSE newWebSocket(s2, user, by)

startConnection(s, user, by) ==
  LET s1 == [s EXCEPT !.reconnectAttempts = 0, !.currentUserId = user]
      s2 == cleanupExistingConnection(s1)
  IN IF s1.connection # NoSocket
     THEN Enqueue(s2, [kind |-> "start", by |-> by, user |-> user])
     ELSE newWebSocket(s2, user, by)

\* stopConnection up to the await inside cleanupExistingConnection
stopConnection(s) ==
  LET s1 == IF s.reconnectTimeoutId # NoTimer
            THEN [clearTimeout(s, s.reconnectTimeoutId) EXCEPT !.reconnectTimeoutId = NoTimer]
            ELSE s
      s2 == IF IsOpen(s1) THEN [s1 EXCEPT !.sock[s1.connection].rs = "CLOSING"] ELSE s1
  IN cleanupExistingConnection(s2)

handleOpen(s) == [s EXCEPT !.reconnectAttempts = 0]

\* -------------------------------------------------------------- ChatProvider
handleConnected(s) ==
  LET s1 == [s EXCEPT !.isConnected = TRUE, !.error = NULL, !.isConnecting = FALSE]
      uid == s1.currentUserId
      s2 == IF uid # "" /\ ~InSeq(uid, s1.activeUsers)
            THEN [s1 EXCEPT !.activeUsers = Append(@, uid)] ELSE s1
      roomToActivate == IF s2.currentRoomIdRef # NULL
                        THEN s2.currentRoomIdRef ELSE DEFAULT_ROOM_ID
  IN setCurrentRoomId(s2, roomToActivate)

handleDisconnected(s) == [s EXCEPT !.isConnected = FALSE, !.isConnecting = FALSE]

\* disconnectedCallbacks.forEach: every registration runs handleDisconnected
notifyDisconnected(s) == IF s.nCallbacks > 0 THEN handleDisconnected(s) ELSE s

\* window.location.reload() after the stored identity is removed: the page,
\* with its sockets and timers, starts over.
reloadPage(s) == [InitState EXCEPT !.storedIdentity = FALSE, !.hasFocus = s.hasFocus]

\* handleClose without the branch for the authentication failure
handleCloseAuthRetried(s, code) ==
  LET s1 == notifyDisconnected(s) IN
  IF code # NormalClosure /\ code # GoingAway THEN scheduleReconnect(s1) ELSE s1

\* handleClose that takes only code 1000 for a normal closure
handleCloseGoingAway(s, code) ==
  IF code = AuthFailure THEN reloadPage(s)
  ELSE LET s1 == notifyDisconnected(s) IN
       IF code # NormalClosure THEN scheduleReconnect(s1) ELSE s1

handleClose(s, code) ==
  IF code = AuthFailure THEN reloadPage(s)
  ELSE LET s1 == notifyDisconnected(s) IN
       IF code # NormalClosure /\ code # GoingAway THEN scheduleReconnect(s1) ELSE s1

\* the close event of socket i with a code: onclose, if it is set
closeEvent(s, i, code) ==
  LET s0 == [s EXCEPT !.sock[i].rs = "CLOSED"] IN
  IF s0.sock[i].on THEN handleClose(s0, code) ELSE s0

\* The promise of startConnection for socket i settles (once): resolved, or
\* rejected with 'WebSocket connection failed' ("failed") or 'WebSocket
\* connection timed out' ("timedOut"). What awaits it continues: connect() of
\* the provider, which keeps the message of a rejection as its error, or the
\* then/catch of the reconnect timer.
settle(s, i, outcome) ==
  IF s.sock[i].prom # "pending" THEN s
  ELSE LET s1 == [s EXCEPT !.sock[i].prom = outcome] IN
       IF s.sock[i].by = "connect"
       THEN IF outcome = "resolved" THEN handleConnected(s1)
            ELSE [s1 EXCEPT !.error = outcome, !.isConnected = FALSE,
                            !.isConnecting = FALSE]
       ELSE IF outcome = "resolved" THEN [s1 EXCEPT !.reconnectAttempts = 0]
            ELSE scheduleReconnect(s1)

\* this.connection?.removeEventListener(.., openHandler / errorHandler of socket i)
removeListeners(s, i) ==
  IF s.connection = i THEN [s EXCEPT !.sock[i].lis = FALSE] ELSE s

registerCallbacks(s) ==
  IF s.nCallbacks >= MaxCallbacks THEN [s EXCEPT !.ovf = TRUE]
  ELSE [s EXCEPT !.nCallbacks = @ + 1]

\* connect() from the registration of the callbacks on
connectStart(s, u) == startConnection(registerCallbacks(s), u, "connect")

\* connect() without the branch for a transport that is open for the same user
connectRestarting(s, u) ==
  IF s.isConnecting THEN s
  ELSE LET s1 == [s EXCEPT !.isConnecting = TRUE, !.error = NULL] IN
       IF IsOpen(s1)
       THEN Enqueue(stopConnection(s1), [kind |-> "stop", by |-> "connect", user |-> u])
       ELSE connectStart(s1, u)

connect(s, u) ==
  IF s.isConnecting THEN s
  ELSE IF IsOpen(s) /\ s.currentUserId = u
  THEN setCurrentRoomId(s, IF s.currentRoomIdRef # NULL
                           THEN s.currentRoomIdRef ELSE DEFAULT_ROOM_ID)
  ELSE LET s1 == [s EXCEPT !.isConnecting = TRUE, !.error = NULL] IN
       IF IsOpen(s1)
       THEN Enqueue(stopConnection(s1), [kind |-> "stop", by |-> "connect", user |-> u])
       ELSE connectStart(s1, u)

\* disconnect() after stopConnection has returned
disconnectEnd(s, uid) ==
  [s EXCEPT !.activeUsers = IF uid # "" THEN SelectSeq(@, LAMBDA x : x # uid) ELSE @,
            !.isConnected = FALSE, !.isConnecting = FALSE]

disconnect(s) ==
  LET uid == s.currentUserId
      s1 == stopConnection(s)
  IN IF s.connection # NoSocket
     THEN Enqueue(s1, [kind |-> "stop", by |-> "disconnect", user |-> uid])
     ELSE disconnectEnd(s1, uid)

\* The 100 ms wait of the oldest suspended call is over.
resume(s, w) ==
  IF w.kind = "start" THEN newWebSocket(s, w.user, w.by)
  ELSE IF w.by = "disconnect" THEN disconnectEnd(s, w.user)
  ELSE connectStart([s EXCEPT !.isConnected = FALSE], w.user)

\* The check of sendMessage that refuses the call: its message, NULL if
\* none does.
sendRefusal(s) ==
  IF s.currentRoomIdRef = NULL THEN "No room selected to send message."
  ELSE IF ~IsOpen(s) THEN "Not connected to chat service."
  ELSE IF s.currentUserId = "" THEN "User details missing for sending message."
  ELSE NULL

\* What a call of sendMessage puts on the wire: nothing, a frame on the
\* WebSocket, or a POST (a message with a file). The service tests the
\* connection once more before either.
sendWire(s, file) ==
  IF sendRefusal(s) # NULL \/ ~IsOpen(s) THEN "none"
  ELSE IF file THEN "post" ELSE "frame"

\* sendMessage that answers a refusal by scheduling a reconnect
sendMessageReconnecting(s, file) ==
  IF sendRefusal(s) # NULL THEN scheduleReconnect([s EXCEPT !.error = sendRefusal(s)])
  ELSE IF ~file THEN s
  ELSE IF s.posting >= MaxPosts THEN [s EXCEPT !.ovf = TRUE]
  ELSE [s EXCEPT !.posting = @ + 1]

\* sendMessage of the provider up to the await of the POST; a refused call
\* sets the error and throws it to the caller
sendMessage(s, file) ==
  IF sendRefusal(s) # NULL THEN [s EXCEPT !.error = sendRefusal(s)]
  ELSE IF ~file THEN s
  ELSE IF s.posting >= MaxPosts THEN [s EXCEPT !.ovf = TRUE]
  ELSE [s EXCEPT !.posting = @ + 1]

\* the POST is answered: with a failure the service throws, the provider
\* sets the error and throws it on to the caller
postSettled(s, ok) ==
  IF ok THEN [s EXCEPT !.posting = @ - 1]
  ELSE [s EXCEPT !.posting = @ - 1, !.error = "Failed to send message"]

\* A render commits: the effect that mirrors state into the refs, and the
\* effect on [currentRoomId, isConnected].
renderEffects(s) ==
  LET s1 == [s EXCEPT !.currentRoomIdRef = s.currentRoomId,
                      !.effectDeps = <<s.currentRoomId, s.isConnected>>]
      r == s.currentRoomId
  IN IF s.effectDeps # <<s.currentRoomId, s.isConnected>> /\ r # NULL /\ s.isConnected
     THEN LET s2 == markRoomAsRead(s1, r) IN
          IF ~Loaded(s2, r) /\ ~s2.loadingHistory[r]
          THEN loadHistory(s2, r) ELSE s2
     ELSE s1

\* ------------------------------------------------------------------ actions
\* One action is one task of the event loop. Timers fire in the order the
\* platform fixes: a timer set earlier with a timeout that is not longer fires
\* first, so the 100 ms waits end in the order they began, a reconnect timer
\* (3000 ms or more) does not fire before the 100 ms waits that were pending
\* when it was set, and the 10 s deadlines fire in the order of their sockets.
\* ChatRoom, which calls connect, is mounted for a signed-in user only, and
\* the commit that mounts it stores the user's identity.
signedIn(s) == [s EXCEPT !.storedIdentity = TRUE]

ConnectCall(u) ==
  /\ u \in PresenceIds
  /\ Commit(connect(signedIn(Cur), u))

DisconnectCall ==
  /\ TRUE
  /\ Commit(disconnect(Cur))

\* the oldest 100 ms wait is over
waitOver(s) ==
  [s EXCEPT !.waits = Tail(@),
            !.timers = {[x EXCEPT !.after = IF @ > 0 THEN @ - 1 ELSE 0] : x \in @}]

WaitDone ==
  /\ waits # <<>>
  /\ Commit(resume(waitOver(Cur), Head(waits)))

\* the transport reports open: onopen, then the openHandler listener
openEvent(s, i) ==
  LET s0 == [s EXCEPT !.sock[i].rs = "OPEN"]
      s1 == IF s0.sock[i].on THEN handleOpen(s0) ELSE s0
  IN IF s1.sock[i].lis THEN settle(removeListeners(s1, i), i, "resolved") ELSE s1

SocketOpen(i) ==
  /\ sock[i].rs = "CONNECTING"
  /\ Commit(openEvent(Cur, i))

\* the error event of socket i: the errorHandler listener (onerror only logs)
errorEvent(s, i) ==
  LET s0 == [s EXCEPT !.sock[i].rs = "CLOSED"] IN
  IF s0.sock[i].lis THEN settle(removeListeners(s0, i), i, "failed") ELSE s0

\* the transport fails before it is open: error, then close 1006
failEvent(s, i) ==
  LET s1 == errorEvent(s, i) IN
  IF s1.sock[i].on THEN handleClose(s1, AbnormalClosure) ELSE s1

SocketFail(i) ==
  /\ sock[i].rs = "CONNECTING"
  /\ Commit(failEvent(Cur, i))

\* an open transport is closed by the server or the network with a code
SocketClose(i, code) ==
  /\ sock[i].rs = "OPEN"
  /\ Commit(closeEvent(Cur, i, code))

\* a transport the client closed finishes closing; one that was closed before
\* it was established fails, which fires error before close (a socket that is
\* still listened to was never established)
SocketClosed(i) ==
  /\ sock[i].rs = "CLOSING"
  /\ Commit(errorEvent(Cur, i))

\* the 10 s timer of startConnection for socket i
deadlineEvent(s, i) ==
  LET s0 == [s EXCEPT !.sock[i].dl = FALSE] IN
  IF ~IsOpen(s0) THEN settle(removeListeners(s0, i), i, "timedOut") ELSE s0

Deadline(i) ==
  /\ sock[i].dl
  /\ \A j \in 1..(i - 1) : ~sock[j].dl
  /\ Commit(deadlineEvent(Cur, i))

\* the reconnect timer fires
ReconnectTimer(t) ==
  /\ t \in timers
  /\ t.after = 0
  /\ LET s0 == [Cur EXCEPT !.timers = @ \ {t}, !.reconnectAttempts = @ + 1]
         s1 == startConnection(s0, s0.currentUserId, "reconnect")
     IN Commit(s1)

Render ==
  /\ <<currentRoomIdRef, effectDeps>> # <<currentRoomId, <<currentRoomId, isConnected>>>>
  /\ Commit(renderEffects(Cur))

\* an inbound frame of type "message" on a socket whose onmessage is set
MessageFrame(i, m) ==
  /\ sock[i].rs = "OPEN"
  /\ sock[i].on
  /\ Commit(notifyMessage(Cur, m, nCallbacks))

\* an inbound user_online (or user_joined_room) frame
UserOnline(i, uid) ==
  /\ sock[i].rs = "OPEN"
  /\ sock[i].on
  /\ Commit(notifyOnline(Cur, uid, nCallbacks))

\* an inbound user_offline (or user_left_room) frame
UserOffline(i, uid) ==
  /\ sock[i].rs = "OPEN"
  /\ sock[i].on
  /\ Commit(notifyOffline(Cur, uid, nCallbacks))

\* an inbound frame of any kind, well-formed or not
InboundFrame(i, f) ==
  /\ sock[i].rs = "OPEN"
  /\ sock[i].on
  /\ Commit(handleMessage(Cur, f))

\* the caller (the message form) sends a message, with a file or without
SendCall(file) ==
  /\ file \in BOOLEAN
  /\ Commit(sendMessage(Cur, file))

\* the POST of a message with a file is answered
PostSettled(ok) ==
  /\ posting > 0
  /\ Commit(postSettled(Cur, ok))

\* the caller (the sidebar) selects a room
SelectRoom(r) ==
  /\ r \in Rooms
  /\ Commit(setCurrentRoomId(Cur, r))

MarkRead(r) ==
  /\ r \in Rooms
  /\ Commit(markRoomAsRead(Cur, r))

\* the caller asks for a room's history (loadHistory of the context value)
LoadHistoryCall(r) ==
  /\ r \in Rooms
  /\ Commit(loadHistory(Cur, r))

FetchResolve(r, h) ==
  /\ fetching[r] > 0
  /\ Commit(historyLoaded([Cur EXCEPT !.fetching[r] = @ - 1], r, h))

FetchFail(r) ==
  /\ fetching[r] > 0
  /\ Commit(historyFailed([Cur EXCEPT !.fetching[r] = @ - 1], r))

FocusChange ==
  /\ TRUE
  /\ Commit([Cur EXCEPT !.hasFocus = ~@])

\* The history variables are recorded under SpecHistory, fetched under SpecVisit.
KeepRun == UNCHANGED <<failedRun, returned, reloaded, fetched>>

KeepHistory == KeepRun /\ UNCHANGED activated

Next ==
  \/ \E u \in Users : ConnectCall(u) /\ KeepHistory
  \/ DisconnectCall /\ KeepHistory
  \/ WaitDone /\ KeepHistory
  \/ \E i \in DOMAIN sock : SocketOpen(i) /\ KeepHistory
  \/ \E i \in DOMAIN sock : SocketFail(i) /\ KeepHistory
  \/ \E i \in DOMAIN sock, code \in CloseCodes : SocketClose(i, code) /\ KeepHistory
  \/ \E i \in DOMAIN sock : SocketClosed(i) /\ KeepHistory
  \/ \E i \in DOMAIN sock : Deadline(i) /\ KeepHistory
  \/ \E t \in timers : ReconnectTimer(t) /\ KeepHistory
  \/ Render /\ KeepHistory

\* The connection manager with every caller and network event; the store's
\* contents do not influence it.
Spec == Init /\ [][Next]_vars

\* The message store on a network that does not fail.
NextStore ==
  \/ \E u \in Users : ConnectCall(u) /\ KeepHistory
  \/ \E i \in DOMAIN sock : SocketOpen(i) /\ KeepHistory
  \/ Render /\ KeepHistory
  \/ \E i \in DOMAIN sock, m \in Frames : MessageFrame(i, m) /\ KeepHistory
  \/ \E r \in Rooms : SelectRoom(r) /\ KeepHistory
  \/ \E r \in Rooms : MarkRead(r) /\ KeepHistory
  \/ \E r \in Rooms, h \in Histories : FetchResolve(r, h) /\ KeepHistory
  \/ \E r \in Rooms : FetchFail(r) /\ KeepHistory
  \/ FocusChange /\ KeepHistory

SpecStore == Init /\ [][NextStore]_vars

\* The promise of a reconnect attempt on socket i is about to be rejected by
\* an event on the socket ...
Rejects(i) ==
  sock[i].lis /\ sock[i].prom = "pending" /\ sock[i].by = "reconnect"

\* ... or by its 10 s timer
TimesOut(i) ==
  ~IsOpen(Cur) /\ sock[i].prom = "pending" /\ sock[i].by = "reconnect"

Bump(failed) ==
  failedRun' = IF failed THEN Min({failedRun + 1, maxReconnectAttempts})
               ELSE failedRun

\* The connection manager of Spec, with the history variables kept: a run of
\* failed reconnect attempts ends when a transport opens, when the caller
\* connects or disconnects, and when the page reloads. The caller makes one
\* call at a time: it awaits disconnect() before it calls connect() again,
\* and connect() before it calls disconnect().
NextHistory ==
  \/ \E u \in Users :
       /\ \A k \in DOMAIN waits : waits[k].by # "disconnect"
       /\ ConnectCall(u)
       /\ failedRun' = 0
       /\ returned' = FALSE
       /\ reloaded' = FALSE
       /\ UNCHANGED <<activated, fetched>>
  \/ /\ ~isConnecting
     /\ DisconnectCall
     /\ failedRun' = 0
     /\ returned' = (returned \/ connection = NoSocket)
     /\ UNCHANGED <<reloaded, activated, fetched>>
  \/ WaitDone /\ UNCHANGED <<failedRun, reloaded, activated, fetched>>
              /\ returned' = (returned \/ Head(waits).by = "disconnect")
  \/ \E i \in DOMAIN sock :
       SocketOpen(i) /\ failedRun' = 0 /\ UNCHANGED <<returned, reloaded, activated, fetched>>
  \/ \E i \in DOMAIN sock :
       SocketFail(i) /\ Bump(Rejects(i)) /\ UNCHANGED <<returned, reloaded, activated, fetched>>
  \/ \E i \in DOMAIN sock, code \in CloseCodes :
       /\ SocketClose(i, code)
       /\ IF code = AuthFailure /\ sock[i].on
          THEN failedRun' = 0 /\ returned' = FALSE /\ reloaded' = TRUE
               /\ UNCHANGED <<activated, fetched>>
          ELSE KeepHistory
  \/ \E i \in DOMAIN sock :
       SocketClosed(i) /\ Bump(Rejects(i)) /\ UNCHANGED <<returned, reloaded, activated, fetched>>
  \/ \E i \in DOMAIN sock :
       Deadline(i) /\ Bump(TimesOut(i)) /\ UNCHANGED <<returned, reloaded, activated, fetched>>
  \/ \E t \in timers : ReconnectTimer(t) /\ KeepHistory
  \/ Render /\ KeepHistory

SpecHistory == Init /\ [][NextHistory]_vars

\* A session in which the caller connects, disconnects and connects again
\* while frames arrive; the transports do not fail, and the frames are those
\* of one message, addressed to any room or to none.
SessionFrames == {m \in Frames : m.id = "m1" /\ m.ts = 1}

\* the histories the backend answers with in such a session
SessionHistories == {h \in Histories : \A k \in DOMAIN h : h[k].id = "m1" /\ h[k].ts = 1}

NextSession ==
  \/ \E u \in Users : ConnectCall(u) /\ KeepHistory
  \/ DisconnectCall /\ KeepHistory
  \/ WaitDone /\ KeepHistory
  \/ \E i \in DOMAIN sock : SocketOpen(i) /\ KeepHistory
  \/ \E i \in DOMAIN sock : SocketClosed(i) /\ KeepHistory
  \/ Render /\ KeepHistory
  \/ \E i \in DOMAIN sock, m \in SessionFrames : MessageFrame(i, m) /\ KeepHistory
  \/ \E r \in Rooms : SelectRoom(r) /\ KeepHistory
  \/ \E r \in Rooms : MarkRead(r) /\ KeepHistory
  \/ FocusChange /\ KeepHistory

SpecSession == Init /\ [][NextSession]_vars

\* The frames of every type, well-formed and damaged, over connects and
\* disconnects.
NextFrames ==
  \/ \E u \in Users : ConnectCall(u) /\ KeepHistory
  \/ DisconnectCall /\ KeepHistory
  \/ WaitDone /\ KeepHistory
  \/ \E i \in DOMAIN sock : SocketOpen(i) /\ KeepHistory
  \/ \E i \in DOMAIN sock : SocketClosed(i) /\ KeepHistory
  \/ Render /\ KeepHistory
  \/ \E i \in DOMAIN sock, f \in InboundFrames : InboundFrame(i, f) /\ KeepHistory

SpecFrames == Init /\ [][NextFrames]_vars

\* The connection manager of Spec with a caller who sends messages.
NextSend ==
  \/ \E u \in Users : ConnectCall(u) /\ KeepHistory
  \/ DisconnectCall /\ KeepHistory
  \/ WaitDone /\ KeepHistory
  \/ \E i \in DOMAIN sock : SocketOpen(i) /\ KeepHistory
  \/ \E i \in DOMAIN sock : SocketFail(i) /\ KeepHistory
  \/ \E i \in DOMAIN sock, code \in CloseCodes : SocketClose(i, code) /\ KeepHistory
  \/ \E i \in DOMAIN sock : SocketClosed(i) /\ KeepHistory
  \/ \E t \in timers : ReconnectTimer(t) /\ KeepHistory
  \/ Render /\ KeepHistory
  \/ \E file \in BOOLEAN : SendCall(file) /\ KeepHistory
  \/ \E ok \in BOOLEAN : PostSettled(ok) /\ KeepHistory

SpecSend == Init /\ [][NextSend]_vars

\* the last render is committed: the refs and the effects have caught up
\* with the state
Committed ==
  <<currentRoomIdRef, effectDeps>> = <<currentRoomId, <<currentRoomId, isConnected>>>>

\* The active room over connections that are lost and established again.
\* React renders before the next event is handled: every other step finds
\* the last render committed.
NextActive ==
  \/ Render /\ KeepRun /\ UNCHANGED activated
  \/ \E u \in Users :
       Committed /\ ConnectCall(u) /\ KeepRun /\ activated' = NULL
  \/ Committed /\ WaitDone /\ KeepRun /\ activated' = NULL
  \/ \E i \in DOMAIN sock :
       Committed /\ SocketOpen(i) /\ KeepRun /\ activated' = currentRoomId'
  \/ \E i \in DOMAIN sock :
       Committed /\ SocketFail(i) /\ KeepRun /\ activated' = NULL
  \/ \E i \in DOMAIN sock :
       Committed /\ SocketClose(i, AbnormalClosure) /\ KeepRun /\ activated' = NULL
  \/ \E t \in timers :
       Committed /\ ReconnectTimer(t) /\ KeepRun /\ activated' = NULL
  \/ \E i \in DOMAIN sock, m \in SessionFrames :
       Committed /\ MessageFrame(i, m) /\ KeepRun /\ activated' = NULL
  \/ \E r \in Rooms :
       /\ Committed /\ SelectRoom(r) /\ KeepRun
       /\ activated' = IF currentRoomId' # currentRoomId THEN r ELSE NULL
  \/ Committed /\ FocusChange /\ KeepRun /\ activated' = NULL

SpecActive == Init /\ [][NextActive]_vars

\* The history fetches: rooms are selected and their history is asked for
\* while the caller connects and disconnects; a fetch succeeds or fails.
NextFetch ==
  \/ \E u \in Users : ConnectCall(u) /\ KeepHistory
  \/ DisconnectCall /\ KeepHistory
  \/ WaitDone /\ KeepHistory
  \/ \E i \in DOMAIN sock : SocketOpen(i) /\ KeepHistory
  \/ \E i \in DOMAIN sock : SocketClosed(i) /\ KeepHistory
  \/ Render /\ KeepHistory
  \/ \E r \in Rooms : SelectRoom(r) /\ KeepHistory
  \/ \E r \in Rooms : LoadHistoryCall(r) /\ KeepHistory
  \/ \E r \in Rooms, h \in SessionHistories : FetchResolve(r, h) /\ KeepHistory
  \/ \E r \in Rooms : FetchFail(r) /\ KeepHistory

SpecFetch == Init /\ [][NextFetch]_vars

\* The presence list over connects, disconnects, transports that open, fail
\* and close, and the join and leave frames of the server.
NextPresence ==
  \/ \E u \in Users : ConnectCall(u) /\ KeepHistory
  \/ DisconnectCall /\ KeepHistory
  \/ WaitDone /\ KeepHistory
  \/ \E i \in DOMAIN sock : SocketOpen(i) /\ KeepHistory
  \/ \E i \in DOMAIN sock : SocketFail(i) /\ KeepHistory
  \/ \E i \in DOMAIN sock, code \in CloseCodes : SocketClose(i, code) /\ KeepHistory
  \/ \E i \in DOMAIN sock : SocketClosed(i) /\ KeepHistory
  \/ \E t \in timers : ReconnectTimer(t) /\ KeepHistory
  \/ Render /\ KeepHistory
  \/ \E i \in DOMAIN sock, uid \in PresenceIds : UserOnline(i, uid) /\ KeepHistory
  \/ \E i \in DOMAIN sock, uid \in PresenceIds : UserOffline(i, uid) /\ KeepHistory

SpecPresence == Init /\ [][NextPresence]_vars

\* ------------------------------------------------------ Subscription Manager
\* The revision of the service that negotiates per-room subscriptions is not
\* among the sources; this part follows its specification. sm.roomState is
\* each room's subscription state; sm.tracked the pending request tracked
\* for each room (0: none), whose 5 s deadline is pending with it;
\* sm.inflight the subscribe frames the backend has not answered yet;
\* sm.requests the subscribe calls made, each with its outcome and whether a
\* frame was sent for it; sm.up whether the connection is open; sm.prior the
\* rooms that were Subscribed immediately before the last disconnection;
\* sm.activeRoom the room that was last active.
Subscribed(m) == {r \in Rooms : m.roomState[r] = "Subscribed"}

\* the outcome of the request tracked for room r
settleRequest(m, r, result) ==
  [m EXCEPT !.requests[m.tracked[r]].result = result, !.tracked[r] = 0]

\* subscribe(roomId) that sends a frame whatever the room's state
subscribeAlways(m, r) ==
  IF Len(m.requests) >= MaxRequests \/ m.inflight[r] >= MaxFrames
  THEN [m EXCEPT !.ovf = TRUE]
  ELSE [m EXCEPT !.roomState[r] = "Pending",
                 !.inflight[r] = @ + 1,
                 !.requests = Append(@, [room |-> r, result |-> "pending", sent |-> TRUE]),
                 !.tracked[r] = Len(m.requests) + 1]

\* subscribe(roomId): a success at once if the room is Subscribed; otherwise
\* the room is Pending, a subscribe frame is sent and the request is tracked
\* with its deadline. A request that was tracked for the room is superseded:
\* its entry is replaced and it is neither resolved nor rejected.
subscribe(m, r) ==
  IF Len(m.requests) >= MaxRequests THEN [m EXCEPT !.ovf = TRUE]
  ELSE IF m.roomState[r] = "Subscribed"
  THEN [m EXCEPT !.requests = Append(@, [room |-> r, result |-> "resolved", sent |-> FALSE])]
  ELSE IF m.inflight[r] >= MaxFrames THEN [m EXCEPT !.ovf = TRUE]
  ELSE [m EXCEPT !.roomState[r] = "Pending",
                 !.inflight[r] = @ + 1,
                 !.requests = Append(@, [room |-> r, result |-> "pending", sent |-> TRUE]),
                 !.tracked[r] = Len(m.requests) + 1]

\* unsubscribe(roomId): sent only if the room is Subscribed
unsubscribe(m, r) ==
  IF m.roomState[r] = "Subscribed" THEN [m EXCEPT !.roomState[r] = "Unsubscribed"] ELSE m

\* an inbound subscription_ack for room r; one that matches no tracked
\* request is dropped
subscriptionAck(m, r, status) ==
  IF m.tracked[r] = 0 THEN m
  ELSE IF status = "subscribed"
  THEN [settleRequest(m, r, "resolved") EXCEPT !.roomState[r] = "Subscribed"]
  ELSE [settleRequest(m, r, "denied") EXCEPT !.roomState[r] = "Unsubscribed"]

\* the 5 s deadline of the request tracked for room r elapses
subscriptionTimeout(m, r) ==
  IF m.tracked[r] = 0 THEN m
  ELSE [settleRequest(m, r, "timeout") EXCEPT !.roomState[r] = "Unsubscribed"]

\* the connection is lost: the subscriptions go with it, and the frames and
\* acknowledgments under way
connectionLost(m) ==
  [m EXCEPT !.up = FALSE,
            !.prior = Subscribed(m),
            !.roomState = [r \in Rooms |-> IF @[r] = "Subscribed" THEN "Unsubscribed" ELSE @[r]],
            !.inflight = [r \in Rooms |-> 0]]

RECURSIVE subscribeAll(_, _)
subscribeAll(m, rooms) ==
  IF rooms = {} THEN m
  ELSE LET r == CHOOSE x \in rooms : TRUE IN subscribeAll(subscribe(m, r), rooms \ {r})

\* a (re)connection that re-issues no subscribe request
connectionOpenedBare(m) ==
  LET first == m.activeRoom = NULL IN
  [(IF first THEN subscribe(m, DEFAULT_ROOM_ID) ELSE m)
     EXCEPT !.up = TRUE,
            !.activeRoom = IF first THEN DEFAULT_ROOM_ID ELSE @]

\* a (re)connection succeeded: a subscribe request is re-issued for every room
\* that was Subscribed before the disconnection; if no room was active before,
\* the default room is subscribed
connectionOpened(m) ==
  LET first == m.activeRoom = NULL
      rooms == m.prior \cup (IF first THEN {DEFAULT_ROOM_ID} ELSE {})
  IN [subscribeAll([m EXCEPT !.up = TRUE], rooms)
        EXCEPT !.activeRoom = IF first THEN DEFAULT_ROOM_ID ELSE @]

CodeVars == <<sock, connection, reconnectAttempts, reconnectTimeoutId, timers,
              currentUserId, nCallbacks, waits, isConnected, isConnecting,
              currentRoomId, currentRoomIdRef, effectDeps, messagesByRoom,
              unreadMessages, loadingHistory, fetching, activeUsers, error,
              posting, hasFocus, storedIdentity, failedRun, returned, reloaded,
              activated, fetched>>

CommitSub(m) ==
  /\ ~m.ovf
  /\ sm' = m
  /\ UNCHANGED CodeVars
  /\ UNCHANGED <<roomService, roomBefore, activeUsersByRoom>>

ConnectionOpened ==
  /\ ~sm.up
  /\ CommitSub(connectionOpened(sm))
  /\ UNCHANGED restoring

ConnectionLost ==
  /\ sm.up
  /\ CommitSub(connectionLost(sm))
  /\ restoring' = TRUE

SubscribeCall(r) ==
  /\ sm.up
  /\ CommitSub(subscribe(sm, r))
  /\ restoring' = FALSE

UnsubscribeCall(r) ==
  /\ sm.up
  /\ CommitSub(unsubscribe(sm, r))
  /\ restoring' = FALSE

\* the backend answers a subscribe frame of room r
SubscriptionAck(r, status) ==
  /\ sm.inflight[r] > 0
  /\ CommitSub(subscriptionAck([sm EXCEPT !.inflight[r] = @ - 1], r, status))
  /\ restoring' = (restoring /\ ~(status = "denied" /\ sm.tracked[r] # 0 /\ r \in sm.prior))

SubscriptionTimeout(r) ==
  /\ sm.tracked[r] # 0
  /\ CommitSub(subscriptionTimeout(sm, r))
  /\ restoring' = (restoring /\ r \notin sm.prior)

NextSubscription ==
  \/ ConnectionOpened
  \/ ConnectionLost
  \/ \E r \in Rooms : SubscribeCall(r)
  \/ \E r \in Rooms : UnsubscribeCall(r)
  \/ \E r \in Rooms, status \in {"subscribed", "denied"} : SubscriptionAck(r, status)
  \/ \E r \in Rooms : SubscriptionTimeout(r)

SpecSubscription == Init /\ [][NextSubscription]_vars

\* ------------------------------------------------------------------- claims
\* C1: no room's log holds two messages with the same id.
C1_NoDuplicateIds ==
  \A r \in DOMAIN messagesByRoom :
    \A i, j \in 1..Len(messagesByRoom[r]) :
      i # j => messagesByRoom[r][i].id # messagesByRoom[r][j].id

\* a room whose log holds every message id, after a live push to that room
C1_Witness ==
  \E r \in DOMAIN messagesByRoom :
    /\ Len(messagesByRoom[r]) = Cardinality(MsgIds)
    /\ unreadMessages[r] > 0
    /\ ~loadingHistory[r]

\* C2: every room's log is in non-decreasing order of timestamp.
C2_SortedByTimestamp ==
  \A r \in DOMAIN messagesByRoom :
    \A i, j \in 1..Len(messagesByRoom[r]) :
      i < j => messagesByRoom[r][i].ts <= messagesByRoom[r][j].ts

\* a log in which the later message has the smaller id
C2_Witness ==
  \E r \in DOMAIN messagesByRoom :
    /\ Len(messagesByRoom[r]) = 2
    /\ messagesByRoom[r][1] = [id |-> "m2", ts |-> 1]
    /\ messagesByRoom[r][2] = [id |-> "m1", ts |-> 2]

\* C3: when a fetched history is applied to a room, every message the room's
\* log held before, pushed live while the fetch was under way, is still in
\* the log.
C3_HistoryKeepsLiveMessages ==
  [][\A r \in Rooms, h \in Histories :
       FetchResolve(r, h) =>
         \A k \in 1..Len(RoomMessages(Cur, r)) :
           HasId(messagesByRoom'[r], RoomMessages(Cur, r)[k].id)]_vars

\* C4: a message frame whose id the room's log already holds changes neither
\* the logs nor the unread counters (stated for the frames that arrive when
\* the last render is committed).
C4_DuplicateIngestIsNoOp ==
  [][\A i \in DOMAIN sock, m \in Frames :
       (/\ currentRoomIdRef = currentRoomId
        /\ m.room # NoRoom
        /\ HasId(RoomMessages(Cur, m.room), m.id)
        /\ MessageFrame(i, m)) =>
         /\ messagesByRoom' = messagesByRoom
         /\ unreadMessages' = unreadMessages]_vars

Live(i) == sock[i].rs \in {"CONNECTING", "OPEN"}

\* C5: after maxAttempts consecutive failed reconnect attempts no further
\* reconnect attempt is scheduled or under way.
C5_GivesUpAfterMaxAttempts ==
  failedRun >= maxReconnectAttempts =>
    /\ timers = {}
    /\ waits = <<>>
    /\ \A i \in DOMAIN sock : ~Live(i)

\* C6: the timer that precedes the k-th consecutive reconnect attempt, k - 1
\* attempts having failed, runs for reconnectDelay * 2^(k-1).
C6_DelayDoubles ==
  \A t \in timers :
    failedRun < maxReconnectAttempts =>
      t.delay = reconnectDelay * (2 ^ failedRun) * DelayScale

\* C7: when a session that was connected has lost its transport and the
\* transport of a reconnect attempt opens, no call of the caller being under
\* way, the provider's connected flag is set again.
C7_ReconnectSetsConnected ==
  [][\A i \in DOMAIN sock :
       (/\ activeUsers # <<>>
        /\ waits = <<>>
        /\ sock[i].by = "reconnect"
        /\ sock[i].on
        /\ connection = i
        /\ SocketOpen(i)) => isConnected']_vars

\* C8: at most one transport whose events the service handles is connecting
\* or open.
C8_OneLiveTransport ==
  Cardinality({i \in DOMAIN sock : Live(i) /\ sock[i].on}) <= 1

\* C9: once disconnect() has returned and until connect() is called, no
\* reconnect timer is pending, no transport is connecting or open, and the
\* provider is disconnected.
C9_DisconnectIsFinal ==
  returned =>
    /\ timers = {}
    /\ \A i \in DOMAIN sock : ~Live(i)
    /\ ~isConnected

C11_AuthFailureIsTerminal ==
  /\ reloaded =>
        /\ timers = {}
        /\ reconnectTimeoutId = NoTimer
        /\ waits = <<>>
        /\ sock = <<>>
        /\ ~storedIdentity
        /\ ~isConnected
  /\ \A i \in DOMAIN sock :
        (sock[i].rs = "OPEN" /\ sock[i].on) =>
          LET s == closeEvent(Cur, i, AuthFailure) IN
          s.timers = {} /\ s.waits = <<>> /\ ~s.storedIdentity

\* the page after a 4001 close, before the user has signed in again
C11_Witness == reloaded /\ ~storedIdentity /\ sock = <<>>

\* The state of the connection as the caller can observe it: the provider's
\* isConnected, its connect() being under way (isConnectingRef), and otherwise
\* whether the service has a reconnect timer pending or a reconnect attempt
\* under way.
ReconnectPending ==
  \/ timers # {}
  \/ \E k \in DOMAIN waits : waits[k].by = "reconnect"
  \/ \E i \in DOMAIN sock : sock[i].prom = "pending" /\ sock[i].by = "reconnect"

ConnectionState ==
  IF isConnected THEN "Connected"
  ELSE IF isConnecting THEN "Connecting"
  ELSE IF ReconnectPending THEN "Reconnecting"
  ELSE "Disconnected"

\* C12: the connection state changes only along the transitions of the state
\* machine: to Connecting by connect; to Connected by an open event from
\* Connecting or Reconnecting; to Reconnecting from Connected by a close that
\* is neither normal nor going away; to Disconnected by disconnect, by a
\* normal close, or when maxAttempts reconnect attempts have failed. Allowed
\* besides, as the teardown and the retry the specification describes
\* elsewhere: connect from a state other than Disconnected, to Disconnected by
\* the authentication failure, and from Connecting to Reconnecting or
\* Disconnected when the connect fails.
C12_StateMachine ==
  [][ConnectionState' # ConnectionState =>
      \/ /\ ConnectionState' = "Connecting"
         /\ \E u \in Users : ConnectCall(u)
      \/ /\ ConnectionState \in {"Connecting", "Reconnecting"}
         /\ ConnectionState' = "Connected"
         /\ \E i \in DOMAIN sock : SocketOpen(i)
      \/ /\ ConnectionState = "Connected" /\ ConnectionState' = "Reconnecting"
         /\ \E i \in DOMAIN sock, code \in CloseCodes \ {NormalClosure, GoingAway} :
              SocketClose(i, code)
      \/ /\ ConnectionState' = "Disconnected"
         /\ \/ DisconnectCall
            \/ waits # <<>> /\ Head(waits).by = "disconnect" /\ WaitDone
            \/ \E i \in DOMAIN sock, code \in {NormalClosure, GoingAway, AuthFailure} :
                 SocketClose(i, code)
            \/ failedRun' >= maxReconnectAttempts
      \/ /\ ConnectionState = "Connecting"
         /\ ConnectionState' \in {"Reconnecting", "Disconnected"}
         /\ \/ \E i \in DOMAIN sock : SocketFail(i) \/ SocketClosed(i) \/ Deadline(i)
     ]_vars

\* C13: the promise of startConnection is settled exactly once. While it is
\* pending its listeners and its deadline are in place and the transport is
\* not open; the open event resolves it, a transport error rejects it with
\* the connection failure, and the deadline, elapsing while the transport is
\* not open, rejects it with the timeout; once settled, no event changes it.
C13_SettledOnce ==
  \A i \in DOMAIN sock :
    /\ sock[i].prom = "pending" =>
         /\ sock[i].lis /\ sock[i].dl /\ sock[i].rs \in {"CONNECTING", "CLOSING"}
         /\ sock[i].rs = "CONNECTING" =>
              /\ openEvent(Cur, i).sock[i].prom = "resolved"
              /\ failEvent(Cur, i).sock[i].prom = "failed"
         /\ sock[i].rs = "CLOSING" => errorEvent(Cur, i).sock[i].prom = "failed"
         /\ deadlineEvent(Cur, i).sock[i].prom = "timedOut"
    /\ sock[i].prom # "pending" =>
         /\ sock[i].rs = "CONNECTING" =>
              /\ openEvent(Cur, i).sock[i].prom = sock[i].prom
              /\ failEvent(Cur, i).sock[i].prom = sock[i].prom
         /\ sock[i].rs = "CLOSING" => errorEvent(Cur, i).sock[i].prom = sock[i].prom
         /\ sock[i].dl => deadlineEvent(Cur, i).sock[i].prom = sock[i].prom

\* C14: the 10 s timer that startConnection sets for a transport is cancelled
\* when the transport opens and when it is torn down or replaced: it fires
\* only while that transport is connecting and is the service's connection.
C14_DeadlineCancelled ==
  [][\A i \in DOMAIN sock :
       Deadline(i) => sock[i].rs = "CONNECTING" /\ connection = i]_vars

\* disconnect() returns: at once when there was no connection to clean up,
\* else when its 100 ms wait is over
DisconnectReturns ==
  \/ connection = NoSocket /\ DisconnectCall
  \/ waits # <<>> /\ Head(waits).by = "disconnect" /\ WaitDone

\* C15: disconnect() is idempotent. When a call of disconnect() returns, the
\* provider is disconnected, the service has no transport and no reconnect
\* timer is pending, and a second call in a row leaves that state as it is.
C15_DisconnectIdempotent ==
  [][DisconnectReturns =>
       /\ connection' = NoSocket
       /\ timers' = {}
       /\ reconnectTimeoutId' = NoTimer
       /\ ~isConnected'
       /\ ~isConnecting'
       /\ (disconnect(Cur))' = Cur']_vars

\* C16: after an open event has been handled reconnectAttempts is 0, and it
\* is within 0..maxReconnectAttempts in every state. It is 0 whenever no
\* handler is running, startConnection resetting it as well, and the largest
\* value it takes, inside the callback of the reconnect timer, is within range.
C16_AttemptCounter ==
  /\ reconnectAttempts = 0
  /\ reconnectAttempts \in 0..maxReconnectAttempts
  /\ timers # {} => reconnectAttempts + 1 \in 0..maxReconnectAttempts
  /\ \A i \in DOMAIN sock :
       sock[i].rs = "CONNECTING" => openEvent(Cur, i).reconnectAttempts = 0

\* the transport of a reconnect attempt has opened after a connected session
\* lost its transport
C16_Witness ==
  /\ connection # NoSocket
  /\ sock[connection].rs = "OPEN"
  /\ sock[connection].on
  /\ activeUsers # <<>>
  /\ ~isConnected
  /\ error = NULL
  /\ timers = {}
  /\ waits = <<>>
  /\ ~isConnecting
  /\ reconnectAttempts = 0

\* C17: a subscribe call for a room that is not Subscribed resolves exactly
\* when an acknowledgment "subscribed" for the room arrives before its
\* deadline; an acknowledgment with a failure status rejects it with the
\* denial and the deadline, elapsing first, with the timeout; once settled its
\* outcome does not change.
C17_AckDecidesOutcome ==
  \A k \in DOMAIN sm.requests :
    LET r == sm.requests[k].room IN
    IF sm.requests[k].result = "pending"
    THEN /\ subscriptionAck(sm, r, "subscribed").requests[k].result = "resolved"
         /\ subscriptionAck(sm, r, "denied").requests[k].result = "denied"
         /\ subscriptionTimeout(sm, r).requests[k].result = "timeout"
    ELSE /\ subscriptionAck(sm, r, "subscribed").requests[k] = sm.requests[k]
         /\ subscriptionAck(sm, r, "denied").requests[k] = sm.requests[k]
         /\ subscriptionTimeout(sm, r).requests[k] = sm.requests[k]

\* C18: after an abnormal disconnect and a successful reconnect, the caller
\* not having acted and the backend having refused no room that was
\* subscribed, the rooms that are Subscribed once no request is pending are
\* the rooms that were Subscribed immediately before the disconnect.
C18_SubscriptionsRestored ==
  (sm.up /\ restoring /\ \A r \in Rooms : sm.tracked[r] = 0) =>
    Subscribed(sm) = sm.prior

\* the subscriptions lost with the connection are restored
C18_Witness ==
  /\ sm.up
  /\ restoring
  /\ \A r \in Rooms : sm.tracked[r] = 0
  /\ sm.prior # {}
  /\ Subscribed(sm) = sm.prior

\* C19: at most one pending request is tracked per room and no subscribe call
\* is left unsettled: every call that is neither resolved nor rejected is the
\* tracked request of its room, which an acknowledgment or its deadline will
\* settle.
C19_NoOrphanedRequest ==
  \A k \in DOMAIN sm.requests :
    sm.requests[k].result = "pending" => sm.tracked[sm.requests[k].room] = k

\* C20: subscribe on a room that is Subscribed succeeds at once, sends no
\* subscribe frame, registers no pending request and leaves every room's
\* subscription state as it is.
C20_SubscribeWhenSubscribed ==
  \A r \in Rooms :
    (sm.roomState[r] = "Subscribed" /\ Len(sm.requests) < MaxRequests) =>
      LET m == subscribe(sm, r) IN
      /\ ~m.ovf
      /\ m.requests[Len(m.requests)] = [room |-> r, result |-> "resolved", sent |-> FALSE]
      /\ SubSeq(m.requests, 1, Len(sm.requests)) = sm.requests
      /\ m.inflight = sm.inflight
      /\ m.tracked = sm.tracked
      /\ m.roomState = sm.roomState

\* a subscribe call on a room that was Subscribed has succeeded without a frame
C20_Witness ==
  \E k \in DOMAIN sm.requests :
    /\ sm.requests[k].result = "resolved"
    /\ ~sm.requests[k].sent
    /\ sm.roomState[sm.requests[k].room] = "Subscribed"

\* C21: a message frame for room r adds exactly 1 to the unread counter of r
\* when r is not the current room or the document has no focus, and leaves it
\* as it is when r is the current room and the document has focus;
\* markRoomAsRead(r) sets it to 0; neither changes the counter of another room
\* (stated for the frames that arrive when the last render is committed).
C21_UnreadCounts ==
  \A r \in Rooms :
    /\ markRoomAsRead(Cur, r).unreadMessages =
         [unreadMessages EXCEPT ![r] = 0]
    /\ \A i \in DOMAIN sock, m \in Frames :
         (/\ sock[i].rs = "OPEN" /\ sock[i].on
          /\ currentRoomIdRef = currentRoomId
          /\ m.room = r) =>
           notifyMessage(Cur, m, nCallbacks).unreadMessages =
             [unreadMessages EXCEPT
                ![r] = IF r # currentRoomId \/ ~hasFocus THEN @ + 1 ELSE @]

NoDuplicates(seq) == \A i, j \in 1..Len(seq) : i # j => seq[i] # seq[j]

\* C22: the presence list never holds two entries with the same user id; a
\* join frame for a user who is in the list and a leave frame for a user who
\* is not in it leave the list as it is.
C22_PresenceIsASet ==
  /\ NoDuplicates(activeUsers)
  /\ \A uid \in PresenceIds :
       /\ InSeq(uid, activeUsers) =>
            notifyOnline(Cur, uid, nCallbacks).activeUsers = activeUsers
       /\ ~InSeq(uid, activeUsers) =>
            notifyOffline(Cur, uid, nCallbacks).activeUsers = activeUsers

\* a join announced while two registrations of the callbacks are in place
C22_Witness ==
  /\ nCallbacks = 2
  /\ InSeq("bob", activeUsers)
  /\ InSeq("alice", activeUsers)

\* C23: at most one history fetch per room is in flight: loadHistory(r) called
\* while a fetch for r is in flight starts no second one, and the guard of r
\* is held exactly while the fetch is in flight, released when it succeeds
\* and when it fails.
C23_OneFetchPerRoom ==
  \A r \in Rooms :
    /\ fetching[r] <= 1
    /\ loadingHistory[r] <=> fetching[r] = 1
    /\ fetching[r] = 1 =>
         /\ loadHistory(Cur, r).fetching[r] = 1
         /\ setCurrentRoomId(Cur, r).fetching[r] = 1
         /\ renderEffects(Cur).fetching[r] = 1
         /\ ~historyFailed(Cur, r).loadingHistory[r]
         /\ \A h \in SessionHistories : ~historyLoaded(Cur, r, h).loadingHistory[r]

\* a fetch in flight for a room whose earlier fetch has failed
C23_Witness ==
  \E r \in Rooms :
    /\ fetching[r] = 1
    /\ loadingHistory[r]
    /\ error = "history"
    /\ ~Loaded(Cur, r)

\* a transport on which frames arrive
Receiving(i) == sock[i].rs = "OPEN" /\ sock[i].on /\ nCallbacks > 0

\* C24: a message frame that carries neither chatId nor roomId is dropped: it
\* changes no room's log and no unread counter, and a message frame that
\* follows it is processed as if it had not arrived.
C24_NoRoomIsDropped ==
  \A i \in DOMAIN sock, m \in Frames :
    (Receiving(i) /\ m.room = NoRoom) =>
      LET after == notifyMessage(Cur, m, nCallbacks) IN
      /\ after.messagesByRoom = messagesByRoom
      /\ after.unreadMessages = unreadMessages
      /\ \A m2 \in Frames :
           notifyMessage(after, m2, nCallbacks) = notifyMessage(Cur, m2, nCallbacks)

\* frames arrive while a room has a message logged and unread
C24_Witness ==
  /\ \E i \in DOMAIN sock : Receiving(i)
  /\ \E r \in Rooms : Loaded(Cur, r) /\ messagesByRoom[r] # <<>> /\ unreadMessages[r] > 0

\* C25: a frame whose text does not parse is dropped: it changes no
\* connection, message, unread or presence state, runs no callback, and a
\* well-formed frame that follows it is processed as if it had not arrived.
C25_MalformedIsDropped ==
  \A i \in DOMAIN sock, f \in InboundFrames :
    (sock[i].rs = "OPEN" /\ sock[i].on /\ ~f.ok) =>
      /\ handleMessage(Cur, f) = Cur
      /\ \A g \in InboundFrames :
           g.ok => handleMessage(handleMessage(Cur, f), g) = handleMessage(Cur, g)

\* frames arrive while a message is logged and unread and bob is present
C25_Witness ==
  /\ \E i \in DOMAIN sock : Receiving(i)
  /\ InSeq("bob", activeUsers)
  /\ \E r \in Rooms : Loaded(Cur, r) /\ messagesByRoom[r] # <<>> /\ unreadMessages[r] > 0

\* C26: a call of sendMessage that is refused (no current room, not
\* connected, user details missing) sets the error that is thrown to the
\* caller and changes nothing else, and puts nothing on the wire; when the
\* transport is not open the call is refused; a POST that fails sets the
\* error, is not sent again, and leaves the connection, the reconnect
\* counter and timers and every room's log as they are.
C26_SendFailureIsSurfaced ==
  /\ \A file \in BOOLEAN :
       /\ sendRefusal(Cur) # NULL =>
            /\ sendMessage(Cur, file) = [Cur EXCEPT !.error = sendRefusal(Cur)]
            /\ sendWire(Cur, file) = "none"
       /\ ~IsOpen(Cur) => sendRefusal(Cur) # NULL
  /\ posting > 0 =>
       LET t == postSettled(Cur, FALSE) IN
       /\ t.error # NULL
       /\ t.posting = posting - 1
       /\ [t EXCEPT !.error = error, !.posting = posting] = Cur

\* a send refused while a reconnect attempt is scheduled
C26_Witness ==
  /\ error = "Not connected to chat service."
  /\ timers # {}
  /\ currentRoomIdRef # NULL

\* C27: when a room has become the active room, by a switch to it or by a
\* connection that was established with it (or, no room being current, the
\* default room) as the current room, its unread counter is 0 once the
\* render that follows is committed.
C27_ActiveRoomIsRead ==
  (activated # NULL /\ Committed) => unreadMessages[activated] = 0

\* C28: when a connection is established (a transport opens) the default
\* room becomes the active room if no room was active, and the active room
\* stays the active room if there was one.
C28_DefaultRoomOnConnect ==
  [][\A i \in DOMAIN sock :
       SocketOpen(i) =>
         currentRoomId' = IF currentRoomId = NULL THEN DEFAULT_ROOM_ID
                          ELSE currentRoomId]_vars

\* C29: no reconnect attempt starts while a transport is open: a reconnect
\* timer that is pending when a connect succeeds is cancelled, so it never
\* fires on an open connection.
C29_NoReconnectWhileOpen ==
  [][\A t \in timers : ReconnectTimer(t) => ~IsOpen(Cur)]_vars

\* C30: a message frame is ingested once, and the unread counter evaluated
\* once, however often connect was called before: what the registered
\* callbacks do with a frame is what one run of handleReceiveMessage does.
C30_OneIngestPerFrame ==
  \A i \in DOMAIN sock, m \in Frames :
    (sock[i].rs = "OPEN" /\ sock[i].on) =>
      notifyMessage(Cur, m, nCallbacks) = handleReceiveMessage(Cur, m)

\* ------------------------------------------------------- first visit of a room
\* The rooms are visited while frames arrive and history fetches are answered.
\* React renders before the next event is handled; fetched records the rooms
\* whose fetch has been answered.
NextVisit ==
  \/ Render /\ KeepHistory
  \/ \E u \in Users : Committed /\ ConnectCall(u) /\ KeepHistory
  \/ Committed /\ DisconnectCall /\ KeepHistory
  \/ Committed /\ WaitDone /\ KeepHistory
  \/ \E i \in DOMAIN sock : Committed /\ SocketOpen(i) /\ KeepHistory
  \/ \E i \in DOMAIN sock : Committed /\ SocketClosed(i) /\ KeepHistory
  \/ \E i \in DOMAIN sock, m \in SessionFrames :
       Committed /\ MessageFrame(i, m) /\ KeepHistory
  \/ \E r \in Rooms : Committed /\ SelectRoom(r) /\ KeepHistory
  \/ \E r \in Rooms, h \in SessionHistories :
       /\ Committed /\ FetchResolve(r, h) /\ fetched' = fetched \cup {r}
       /\ UNCHANGED <<failedRun, returned, reloaded, activated>>
  \/ \E r \in Rooms :
       /\ Committed /\ FetchFail(r) /\ fetched' = fetched \cup {r}
       /\ UNCHANGED <<failedRun, returned, reloaded, activated>>

SpecVisit == Init /\ [][NextVisit]_vars

\* C31: when a room is the active room of a connected session, the render
\* being committed, and no history fetch of the room has been answered yet,
\* a history fetch of the room is in flight, whether or not a live message
\* of the room was ingested before the room became active.
C31_FirstVisitFetches ==
  (Committed /\ isConnected /\ currentRoomId # NULL /\ currentRoomId \notin fetched)
    => fetching[currentRoomId] > 0

\* ------------------------------------------------- one connect at a time
\* C32: at most one call of connect() awaits its outcome, in the 100 ms wait
\* of a teardown or on the promise of startConnection; while one does, the
\* in-progress flag is set and a further call of connect() returns without
\* a teardown and without a transport; the event that resolves or rejects
\* the awaited promise clears the flag, and the flag is not set while no
\* call awaits.
C32_OneConnectInProgress ==
  LET Awaiting(i) == sock[i].prom = "pending" /\ sock[i].by = "connect"
      InProgress ==
        Cardinality({i \in DOMAIN sock : Awaiting(i)})
          + Cardinality({k \in DOMAIN waits : waits[k].by = "connect"})
  IN
  /\ InProgress <= 1
  /\ isConnecting <=> InProgress = 1
  /\ InProgress = 1 =>
       \A u \in Users : connect(signedIn(Cur), u) = signedIn(Cur)
  /\ \A i \in DOMAIN sock : Awaiting(i) /\ sock[i].lis =>
       /\ sock[i].rs = "CONNECTING" =>
            /\ ~openEvent(Cur, i).isConnecting
            /\ ~failEvent(Cur, i).isConnecting
       /\ sock[i].rs = "CLOSING" => ~errorEvent(Cur, i).isConnecting
  /\ \A i \in DOMAIN sock : Awaiting(i) /\ sock[i].dl /\ ~IsOpen(Cur) =>
       ~deadlineEvent(Cur, i).isConnecting

\* ------------------------------------------------------------- two accounts
\* The connection manager of Spec with a caller who connects as either of
\* two users and makes one call at a time, as under SpecHistory.
NextAccounts ==
  \/ \E u \in PresenceIds :
       /\ \A k \in DOMAIN waits : waits[k].by # "disconnect"
       /\ ConnectCall(u)
       /\ KeepHistory
  \/ ~isConnecting /\ DisconnectCall /\ KeepHistory
  \/ WaitDone /\ KeepHistory
  \/ \E i \in DOMAIN sock : SocketOpen(i) /\ KeepHistory
  \/ \E i \in DOMAIN sock : SocketFail(i) /\ KeepHistory
  \/ \E i \in DOMAIN sock, code \in CloseCodes : SocketClose(i, code) /\ KeepHistory
  \/ \E i \in DOMAIN sock : SocketClosed(i) /\ KeepHistory
  \/ \E t \in timers : ReconnectTimer(t) /\ KeepHistory
  \/ Render /\ KeepHistory

SpecAccounts == Init /\ [][NextAccounts]_vars

\* C33: with the transport open, connect() for the user it is open for
\* closes no transport, opens none and registers no handler; connect() for
\* another user, unless a connect is in progress, closes the transport
\* (handlers removed, a teardown wait begun) and neither registers handlers
\* nor creates a transport before the wait is over; when the wait of such a
\* connect is over the handlers are registered and the new transport is
\* created, a connection that exists by then being closed first.
C33_ConnectWhileOpen ==
  LET ServiceSide(s) ==
        <<s.sock, s.connection, s.timers, s.reconnectTimeoutId, s.nCallbacks, s.waits>>
  IN
  /\ \A u \in PresenceIds : IsOpen(Cur) =>
       LET s == connect(signedIn(Cur), u) IN
       IF u = currentUserId \/ isConnecting
       THEN ServiceSide(s) = ServiceSide(Cur)
       ELSE \/ s.ovf
            \/ /\ s.connection = NoSocket
               /\ s.sock = [sock EXCEPT ![connection].rs = "CLOSING",
                                        ![connection].on = FALSE]
               /\ s.nCallbacks = nCallbacks
               /\ s.waits = Append(waits, [kind |-> "stop", by |-> "connect", user |-> u])
  /\ (waits # <<>> /\ Head(waits).kind = "stop" /\ Head(waits).by = "connect") =>
       LET s == resume(waitOver(Cur), Head(waits)) IN
       \/ s.ovf
       \/ /\ s.nCallbacks = nCallbacks + 1
          /\ s.currentUserId = Head(waits).user
          /\ IF connection = NoSocket
             THEN s.connection = Len(sock) + 1 /\ s.waits = Tail(waits)
             ELSE /\ s.connection = NoSocket
                  /\ ~s.sock[connection].on
                  /\ s.sock[connection].rs # "OPEN"
                  /\ Len(s.sock) = Len(sock)

\* connected as bob after the connection as alice was replaced
C33_Witness ==
  IsOpen(Cur) /\ isConnected /\ currentUserId = "bob" /\ nCallbacks = 2

\* ------------------------------------------------------- stale transports
\* C34: the events of a transport that is no longer the service's
\* connection, torn down by cleanupExistingConnection or replaced by the
\* transport of a later startConnection (open, error, close with any code,
\* an inbound message), leave the session state, which is everything but
\* the WebSocket objects themselves, as it is: no reconnect is scheduled,
\* no listener is notified, no flag and no error changes.
C34_StaleEventsAreInert ==
  LET SessionState(s) == [s EXCEPT !.sock = <<>>] IN
  \A i \in DOMAIN sock : i # connection =>
    /\ sock[i].rs = "CONNECTING" =>
         /\ SessionState(openEvent(Cur, i)) = SessionState(Cur)
         /\ SessionState(failEvent(Cur, i)) = SessionState(Cur)
    /\ sock[i].rs = "CLOSING" =>
         SessionState(closeEvent(errorEvent(Cur, i), i, AbnormalClosure)) = SessionState(Cur)
    /\ sock[i].rs = "OPEN" =>
         /\ \A code \in CloseCodes :
              SessionState(closeEvent(Cur, i, code)) = SessionState(Cur)
         /\ \A m \in SessionFrames :
              sock[i].on => notifyMessage(Cur, m, nCallbacks) = Cur

\* C35: at most one reconnect timer is pending, and it is the one the
\* service holds the id of; the failure of a transport, which can schedule
\* from the rejected promise and from the close event, leaves at most one.
C35_OneReconnectTimer ==
  /\ Cardinality(timers) <= 1
  /\ \A t \in timers : t.id = reconnectTimeoutId
  /\ \A i \in DOMAIN sock : sock[i].rs = "CONNECTING" =>
       \/ failEvent(Cur, i).ovf
       \/ Cardinality(failEvent(Cur, i).timers) <= 1

\* a reconnect attempt has failed, its promise rejected and its transport
\* closed, and one timer is pending
C35_Witness ==
  failedRun >= 1 /\ Cardinality(timers) = 1 /\ \A i \in DOMAIN sock : sock[i].rs = "CLOSED"

\* C36: when the history fetch of a room fails, the log of every room is
\* left as it was (a room without a log stays without one), the error is
\* recorded, and loadHistory for the room then starts a new fetch.
C36_FailedFetchKeepsLogs ==
  \A r \in Rooms : fetching[r] > 0 =>
    LET s == historyFailed([Cur EXCEPT !.fetching[r] = @ - 1], r) IN
    /\ s.messagesByRoom = messagesByRoom
    /\ s.error = "history"
    /\ s.fetching[r] = 0
    /\ loadHistory(s, r).fetching[r] = 1
    /\ loadHistory(s, r).loadingHistory[r]

\* the fetch of one room has failed, no fetch of it is in flight, and the
\* other room keeps the history it was given
C36_Witness ==
  \E r, q \in Rooms :
    /\ error = "history"
    /\ fetching[r] = 0
    /\ ~loadingHistory[r]
    /\ ~Loaded(Cur, r)
    /\ Loaded(Cur, q)
    /\ messagesByRoom[q] # <<>>

\* --------------------------------------- the service with a connection per room
\* services/chatService.ts connects to /ws/{roomId}/{userId}: a room switch
\* replaces the connection. roomService.conn is this.connection (its
\* readyState, "none" for null); pending who awaits the promise of the
\* startConnection that created it ("switch": updateCurrentRoom, with target
\* its roomId argument; "start": the provider; "reconnect": the timer);
\* stale the awaiting calls whose transport was torn down while it was
\* connecting, oldest first; timer whether the reconnect timer is pending.
roomMaxReconnectAttempts == 3

\* cleanupExistingConnection: it does not wait
roomCleanup(s) ==
  LET s1 == [s EXCEPT !.timer = FALSE] IN
  IF s1.conn = "none" THEN s1
  ELSE IF s1.pending # "none" /\ s1.conn = "CONNECTING"
  THEN IF Len(s1.stale) >= MaxStale THEN [s1 EXCEPT !.ovf = TRUE]
       ELSE [s1 EXCEPT !.stale = Append(@, [by |-> s1.pending, target |-> s1.target]),
                       !.conn = "none", !.pending = "none", !.target = NULL]
  ELSE [s1 EXCEPT !.conn = "none", !.pending = "none", !.target = NULL]

\* startConnection(userId, username, roomId) up to the promise it returns
roomStartConnection(s, r, by, target) ==
  LET s1 == [s EXCEPT !.reconnectAttempts = 0, !.currentRoomId = r]
      s2 == roomCleanup(s1)
  IN [s2 EXCEPT !.conn = "CONNECTING", !.pending = by, !.target = target]

\* updateCurrentRoom(roomId) up to its await
updateCurrentRoom(s, r) ==
  IF r = s.currentRoomId THEN s
  ELSE IF s.roomChangeInProgress THEN s
  ELSE roomStartConnection([s EXCEPT !.roomChangeInProgress = TRUE], r, "switch", r)

\* the awaited promise settles: updateCurrentRoom continues with its catch
\* (after a rejection) and its finally; the other callers only log
roomSettled(s, by, target, ok) ==
  IF by # "switch" THEN s
  ELSE IF ok THEN [s EXCEPT !.roomChangeInProgress = FALSE]
  ELSE [s EXCEPT !.currentRoomId = target, !.roomChangeInProgress = FALSE]

\* handleClose, with scheduleReconnect: the counter, the timer
roomHandleClose(s, code) ==
  IF code = AbnormalClosure /\ s.reconnectAttempts < roomMaxReconnectAttempts
  THEN [s EXCEPT !.reconnectAttempts = @ + 1, !.timer = TRUE] ELSE s

\* the transport fails before it is open: the errorHandler of the promise,
\* then the close event with 1006
roomFailed(s) ==
  LET s1 == [roomSettled(s, s.pending, s.target, FALSE)
               EXCEPT !.pending = "none", !.target = NULL, !.conn = "CLOSED"]
  IN roomHandleClose(s1, AbnormalClosure)

\* the 10 s timer of startConnection finds the transport not open
roomTimedOut(s) ==
  [roomSettled(s, s.pending, s.target, FALSE) EXCEPT !.pending = "none", !.target = NULL]

\* a torn-down transport reports its error (its on* handlers are removed, the
\* listeners of its promise are not), or its 10 s timer elapses
roomStaleRejected(s) ==
  [roomSettled(s, Head(s.stale).by, Head(s.stale).target, FALSE)
     EXCEPT !.stale = Tail(@)]

CommitRoom(s, a) ==
  /\ ~s.ovf
  /\ roomService' = s
  /\ activeUsersByRoom' = a
  /\ UNCHANGED CodeVars
  /\ UNCHANGED <<sm, restoring>>

\* the provider connects to a room
RoomConnect(r) ==
  /\ r \in Rooms
  /\ CommitRoom(roomStartConnection(roomService, r, "start", NULL), activeUsersByRoom)
  /\ UNCHANGED roomBefore

\* the caller switches to a room
RoomSwitch(r) ==
  /\ r \in Rooms
  /\ CommitRoom(updateCurrentRoom(roomService, r), activeUsersByRoom)
  /\ roomBefore' = IF updateCurrentRoom(roomService, r) # roomService
                   THEN roomService.currentRoomId ELSE roomBefore

\* stopConnection
RoomStop ==
  /\ roomService.conn # "none" \/ roomService.timer
  /\ CommitRoom(roomCleanup(roomService), activeUsersByRoom)
  /\ UNCHANGED roomBefore

\* the transport opens: handleOpen, then the openHandler of the promise
RoomOpened ==
  /\ roomService.conn = "CONNECTING"
  /\ LET s1 == [roomService EXCEPT !.conn = "OPEN", !.reconnectAttempts = 0] IN
     CommitRoom([roomSettled(s1, s1.pending, s1.target, TRUE)
                   EXCEPT !.pending = "none", !.target = NULL], activeUsersByRoom)
  /\ UNCHANGED roomBefore

RoomFailed ==
  /\ roomService.conn = "CONNECTING"
  /\ CommitRoom(roomFailed(roomService), activeUsersByRoom)
  /\ UNCHANGED roomBefore

RoomTimedOut ==
  /\ roomService.conn = "CONNECTING"
  /\ roomService.pending # "none"
  /\ CommitRoom(roomTimedOut(roomService), activeUsersByRoom)
  /\ UNCHANGED roomBefore

\* the open transport is closed with a code
RoomClosed(code) ==
  /\ roomService.conn = "OPEN"
  /\ CommitRoom(roomHandleClose([roomService EXCEPT !.conn = "CLOSED"], code),
                activeUsersByRoom)
  /\ UNCHANGED roomBefore

RoomStaleRejected ==
  /\ roomService.stale # <<>>
  /\ CommitRoom(roomStaleRejected(roomService), activeUsersByRoom)
  /\ UNCHANGED roomBefore

\* the reconnect timer: startConnection for the current room
RoomReconnect ==
  /\ roomService.timer
  /\ CommitRoom(roomStartConnection([roomService EXCEPT !.timer = FALSE],
                                    roomService.currentRoomId, "reconnect", NULL),
                activeUsersByRoom)
  /\ UNCHANGED roomBefore

NextRoomService ==
  \/ \E r \in Rooms : RoomConnect(r)
  \/ \E r \in Rooms : RoomSwitch(r)
  \/ RoomStop
  \/ RoomOpened
  \/ RoomFailed
  \/ RoomTimedOut
  \/ \E code \in CloseCodes : RoomClosed(code)
  \/ RoomStaleRejected
  \/ RoomReconnect

SpecRoomService == Init /\ [][NextRoomService]_vars

\* C37: in the service with a connection per room, when the connection for
\* the room of updateCurrentRoom fails (transport error, or the 10 s
\* timeout), currentRoomId is afterwards what it was before the call.
C37_FailedSwitchKeepsRoom ==
  /\ (roomService.pending = "switch" /\ roomService.conn = "CONNECTING") =>
       /\ roomFailed(roomService).currentRoomId = roomBefore
       /\ roomTimedOut(roomService).currentRoomId = roomBefore
  /\ (roomService.stale # <<>> /\ Head(roomService.stale).by = "switch") =>
       roomStaleRejected(roomService).currentRoomId = roomBefore

\* ---------------------------------------------------- presence kept per room
\* contexts/ChatContext.tsx of the per-room revision keeps one user list per
\* room in activeUsersByRoom, a JavaScript object: a function on the rooms
\* it has a key for. A join or leave event names a room or "all".
\* the users the events are about
RoomUserIds == PresenceIds \cup {"carol"}

\* updatedUsers[roomId] || []
RoomUsers(a, r) == IF r \in DOMAIN a THEN a[r] ELSE <<>>

Without(seq, uid) == SelectSeq(seq, LAMBDA x : x # uid)

AddOnce(seq, uid) == IF InSeq(uid, seq) THEN seq ELSE Append(seq, uid)

\* handleUserJoinedRoom without the lookup of the user in the room's list
handleUserJoinedRoomAppending(a, roomId, uid) ==
  IF roomId = "all"
  THEN [r \in DOMAIN a \cup {DEFAULT_ROOM_ID} |-> AddOnce(RoomUsers(a, r), uid)]
  ELSE [r \in DOMAIN a \cup {roomId} |->
          IF r = roomId THEN Append(RoomUsers(a, r), uid) ELSE a[r]]

handleUserJoinedRoom(a, roomId, uid) ==
  IF roomId = "all"
  THEN [r \in DOMAIN a \cup {DEFAULT_ROOM_ID} |-> AddOnce(RoomUsers(a, r), uid)]
  ELSE [r \in DOMAIN a \cup {roomId} |->
          IF r = roomId THEN AddOnce(RoomUsers(a, r), uid) ELSE a[r]]

handleUserLeftRoom(a, roomId, uid) ==
  IF roomId = "all"
  THEN [r \in DOMAIN a |-> Without(a[r], uid)]
  ELSE [r \in DOMAIN a \cup {roomId} |->
          IF r = roomId THEN Without(RoomUsers(a, r), uid) ELSE a[r]]

UserJoinedRoom(roomId, uid) ==
  /\ roomId \in Rooms \cup {"all"}
  /\ CommitRoom(roomService, handleUserJoinedRoom(activeUsersByRoom, roomId, uid))
  /\ UNCHANGED roomBefore

UserLeftRoom(roomId, uid) ==
  /\ roomId \in Rooms \cup {"all"}
  /\ CommitRoom(roomService, handleUserLeftRoom(activeUsersByRoom, roomId, uid))
  /\ UNCHANGED roomBefore

\* handleConnected adds the current user to every room it has a key for and
\* to 'general', each unless the user is there: what handleUserJoinedRoom
\* does for "all"
ConnectedPerRoom(uid) ==
  /\ uid \in Users
  /\ CommitRoom(roomService, handleUserJoinedRoom(activeUsersByRoom, "all", uid))
  /\ UNCHANGED roomBefore

\* disconnect filters the current user out of every room: what
\* handleUserLeftRoom does for "all"
DisconnectPerRoom(uid) ==
  /\ uid \in Users
  /\ CommitRoom(roomService, handleUserLeftRoom(activeUsersByRoom, "all", uid))
  /\ UNCHANGED roomBefore

NextRoomPresence ==
  \/ \E roomId \in Rooms \cup {"all"}, uid \in RoomUserIds : UserJoinedRoom(roomId, uid)
  \/ \E roomId \in Rooms \cup {"all"}, uid \in RoomUserIds : UserLeftRoom(roomId, uid)
  \/ \E uid \in Users : ConnectedPerRoom(uid)
  \/ \E uid \in Users : DisconnectPerRoom(uid)

SpecRoomPresence == Init /\ [][NextRoomPresence]_vars

\* C38: in the per-room presence, no room's list holds a user twice. A join
\* for a room leaves the user in that room's list exactly once, adds no
\* other entry and leaves the other rooms as they are; a join for 'all'
\* leaves the user exactly once in every known room and in 'general',
\* keeping the other entries; a leave removes the user from the named room
\* only, and from every room for 'all', keeping the other entries.
C38_RoomPresenceIsASet ==
  LET a == activeUsersByRoom IN
  /\ \A r \in DOMAIN a : NoDuplicates(a[r])
  /\ \A uid \in RoomUserIds :
       /\ \A roomId \in Rooms :
            LET j == handleUserJoinedRoom(a, roomId, uid)
                l == handleUserLeftRoom(a, roomId, uid)
            IN /\ DOMAIN j = DOMAIN a \cup {roomId}
               /\ InSeq(uid, j[roomId]) /\ NoDuplicates(j[roomId])
               /\ Without(j[roomId], uid) = RoomUsers(a, roomId)
                    \/ j[roomId] = RoomUsers(a, roomId)
               /\ \A r \in DOMAIN a \ {roomId} : j[r] = a[r] /\ l[r] = a[r]
               /\ handleUserJoinedRoom(j, roomId, uid) = j
               /\ l[roomId] = Without(RoomUsers(a, roomId), uid)
       /\ LET j == handleUserJoinedRoom(a, "all", uid)
              l == handleUserLeftRoom(a, "all", uid)
          IN /\ DOMAIN j = DOMAIN a \cup {DEFAULT_ROOM_ID}
             /\ \A r \in DOMAIN j :
                  /\ InSeq(uid, j[r]) /\ NoDuplicates(j[r])
                  /\ Without(j[r], uid) = Without(RoomUsers(a, r), uid)
             /\ DOMAIN l = DOMAIN a
             /\ \A r \in DOMAIN l : l[r] = Without(a[r], uid)

\* both rooms are known, with two users in one and another user in the other
C38_Witness ==
  /\ DOMAIN activeUsersByRoom = Rooms
  /\ Len(activeUsersByRoom["general"]) = 2
  /\ activeUsersByRoom["random"] = <<"carol">>

====
